---- MODULE Spec2Model ----
(***************************************************************************)
(* cargo-bom (src/main.rs): the dependency enumerator, the license         *)
(* classifier, the license file locator and the report loop of real_main.  *)
(*                                                                         *)
(* A Rust string is a sequence of one-character strings, so that split,    *)
(* trim, starts_with and the byte order of BTreeSet<&str> are computed as   *)
(* the code computes them.  Option<T> is a sequence of length 0 (None) or   *)
(* 1 (Some).  A BTreeSet that the code iterates is its iteration sequence.   *)
(*                                                                         *)
(* Taken to succeed, as the claims are not about them: the writes to stdout, *)
(* PackageSet::get_one, and manifest_path().parent() (a manifest path always *)
(* has a parent).  The filesystem has regular files and directories, no      *)
(* symbolic links, and every entry name is valid Unicode.                    *)
(***************************************************************************)
EXTENDS Integers, Sequences, FiniteSets, TLC

\* ------------------------------------------------------------ bounds
\* Longest raw license expression, in pieces (an identifier, a separator, a space).
MaxPieces == 4
\* Longest identifier list of a well-formed license expression.
MaxIds == 2

\* ------------------------------------------------------------ strings
\* The characters the model uses, in byte order.
Alphabet ==
    << " ", ",", "-", ".", "/", "0", "1", "2",
       "A", "B", "C", "D", "E", "G", "H", "I", "L", "M", "N", "O", "P",
       "R", "S", "T", "U", "Y",
       "a", "b", "c", "d", "e", "f", "h", "i", "l", "n", "o", "p", "s", "u", "x" >>

Code(c) == CHOOSE i \in 1..Len(Alphabet) : Alphabet[i] = c

None == << >>
Some(x) == << x >>

RECURSIVE StrLess(_, _)
\* <[u8]>::cmp, strictly less: the first differing byte decides, a proper prefix is less.
StrLess(a, b) ==
    IF b = << >> THEN FALSE
    ELSE IF a = << >> THEN TRUE
    ELSE IF Head(a) = Head(b) THEN StrLess(Tail(a), Tail(b))
    ELSE Code(Head(a)) < Code(Head(b))

\* str::starts_with
StartsWith(s, p) == Len(p) <= Len(s) /\ SubSeq(s, 1, Len(p)) = p

RECURSIVE Find(_, _, _)
\* The leftmost match of pat in s at index i or later; 0 when there is none.
Find(s, pat, i) ==
    IF i + Len(pat) - 1 > Len(s) THEN 0
    ELSE IF SubSeq(s, i, i + Len(pat) - 1) = pat THEN i
    ELSE Find(s, pat, i + 1)

RECURSIVE Split(_, _)
\* str::split(pat): the pieces between the leftmost non-overlapping matches;
\* n matches give n + 1 pieces, empty pieces included.
Split(s, pat) ==
    LET j == Find(s, pat, 1)
    IN  IF j = 0 THEN << s >>
        ELSE << SubSeq(s, 1, j - 1) >> \o Split(SubSeq(s, j + Len(pat), Len(s)), pat)

RECURSIVE FlatSplit(_, _)
\* flat_map(|s| s.split(pat)) over a sequence of strings.
FlatSplit(ss, pat) ==
    IF ss = << >> THEN << >>
    ELSE Split(Head(ss), pat) \o FlatSplit(Tail(ss), pat)

RECURSIVE TrimStart(_)
TrimStart(s) == IF s # << >> /\ Head(s) = " " THEN TrimStart(Tail(s)) ELSE s

RECURSIVE TrimEnd(_)
TrimEnd(s) ==
    IF s # << >> /\ s[Len(s)] = " " THEN TrimEnd(SubSeq(s, 1, Len(s) - 1)) ELSE s

\* str::trim
Trim(s) == TrimEnd(TrimStart(s))

Range(f) == { f[i] : i \in DOMAIN f }

RECURSIVE SortStrs(_)
\* The iteration order of a BTreeSet<&str>: ascending byte order.
SortStrs(S) ==
    IF S = {} THEN << >>
    ELSE LET m == CHOOSE x \in S : \A y \in S \ {x} : StrLess(x, y)
         IN  << m >> \o SortStrs(S \ {m})

RECURSIVE Join(_, _)
\* Itertools::join(sep)
Join(ss, sep) ==
    IF ss = << >> THEN << >>
    ELSE IF Len(ss) = 1 THEN Head(ss)
    ELSE Head(ss) \o sep \o Join(Tail(ss), sep)

RECURSIVE Concat(_)
Concat(ss) == IF ss = << >> THEN << >> ELSE Head(ss) \o Concat(Tail(ss))

\* ------------------------------------------------------------ classifier
OR == << "O", "R" >>
AND == << "A", "N", "D" >>
SLASH == << "/" >>
COMMA_SPACE == << ",", " " >>

\* package_licenses with the '/' split left out.
package_licenses_no_slash(package) ==
    LET metadata == package.metadata IN
    IF metadata.license # None
    THEN LET pieces == FlatSplit(Split(metadata.license[1], OR), AND)
         IN  [tag |-> "List", names |-> { Trim(pieces[i]) : i \in DOMAIN pieces }]
    ELSE IF metadata.license_file # None
    THEN [tag |-> "File", file |-> metadata.license_file[1]]
    ELSE [tag |-> "Missing"]

\* package_licenses with the two tests in the other order: the declared file wins.
package_licenses_file_first(package) ==
    LET metadata == package.metadata IN
    IF metadata.license_file # None
    THEN [tag |-> "File", file |-> metadata.license_file[1]]
    ELSE IF metadata.license # None
    THEN LET pieces == FlatSplit(FlatSplit(Split(metadata.license[1], OR), AND), SLASH)
         IN  [tag |-> "List", names |-> { Trim(pieces[i]) : i \in DOMAIN pieces }]
    ELSE [tag |-> "Missing"]

\* package_licenses: the expression wins, then the declared file, then Missing.
package_licenses(package) ==
    LET metadata == package.metadata IN
    IF metadata.license # None
    THEN LET license_str == metadata.license[1]
             pieces == FlatSplit(FlatSplit(Split(license_str, OR), AND), SLASH)
         IN  [tag |-> "List", names |-> { Trim(pieces[i]) : i \in DOMAIN pieces }]
    ELSE IF metadata.license_file # None
    THEN [tag |-> "File", file |-> metadata.license_file[1]]
    ELSE [tag |-> "Missing"]

SPECIFIED_IN_FILE ==
    << "S", "p", "e", "c", "i", "f", "i", "e", "d", " ", "i", "n", " ",
       "l", "i", "c", "e", "n", "s", "e", " ", "f", "i", "l", "e" >>
MISSING == << "M", "i", "s", "s", "i", "n", "g" >>

\* impl Display for Licenses
Display(licenses) ==
    CASE licenses.tag = "File" -> SPECIFIED_IN_FILE
      [] licenses.tag = "Missing" -> MISSING
      [] licenses.tag = "List" -> Join(SortStrs(licenses.names), COMMA_SPACE)

\* ------------------------------------------------------------ state
VARIABLES
    package_ids,    \* the PackageSet, in its iteration order (a sequence of packages)
    members,        \* ws.members(): the workspace members, in order
    resolve,        \* the resolved graph: edges [from, dep, to] over package ids
    fs,             \* the filesystem: the absolute paths that exist, with their kind
    all,            \* args.all
    licenses,       \* per classified package, the Option of package_licenses' value
    shown,          \* per classified package, the Option of its Display string
    license_files,  \* the Option of package_license_files' io::Result
    dependencies,   \* the Option of the enumerator's BTreeSet<Package>
    pc,             \* real_main's position
    pending,        \* what is left of the iteration in progress in real_main
    block,          \* the Option of the license block being written
    depencies_list, \* real_main's BTreeSet<DepTable>
    licenses_list,  \* real_main's BTreeSet<LicenseTable>
    out             \* what was written to stdout, in order

vars ==
    << package_ids, members, resolve, fs, all, licenses, shown, license_files,
       dependencies, pc, pending, block, depencies_list, licenses_list, out >>

worldVars == << package_ids, members, resolve, fs, all >>
classifierVars == << licenses, shown >>
mainVars == << pc, pending, block, depencies_list, licenses_list, out >>

\* ------------------------------------------------------------ packages
FOO == << "f", "o", "o" >>
BAR == << "b", "a", "r" >>
APP == << "a", "p", "p" >>
LIB == << "l", "i", "b" >>

PackageId(name, version, source) ==
    [name |-> name, version |-> version, source |-> source]

Metadata(license, license_file) == [license |-> license, license_file |-> license_file]

Package(id, dir, metadata, deps) ==
    [id |-> id, dir |-> dir, metadata |-> metadata, dependencies |-> deps]

NoFs == [nodes |-> {}, denied |-> {}]

\* ------------------------------------------------------------ classifier inputs
MIT == << "M", "I", "T" >>
APACHE == << "A", "p", "a", "c", "h", "e", "-", "2", ".", "0" >>
Identifiers == { MIT, APACHE }
Pieces == { MIT, APACHE, OR, AND, SLASH, << " " >> }
Separators == { << " " >> \o OR \o << " " >>, << " " >> \o AND \o << " " >>, SLASH }

SeqsUpTo(S, n) == UNION { [1..k -> S] : k \in 0..n }

\* Raw expressions: any run of identifiers, separators and spaces.
RawExpressions == { Concat(ps) : ps \in SeqsUpTo(Pieces, MaxPieces) }

RECURSIVE Interleave(_, _)
Interleave(ids, seps) ==
    IF Len(ids) = 1 THEN Head(ids)
    ELSE Head(ids) \o Head(seps) \o Interleave(Tail(ids), Tail(seps))

IdLists == UNION { [1..k -> Identifiers] : k \in 1..MaxIds }

\* Well-formed expressions listing the identifiers of ids, each join with any separator.
Listings(ids) == { Interleave(ids, seps) : seps \in [1..(Len(ids) - 1) -> Separators] }

LICENSE_TXT == << "L", "I", "C", "E", "N", "S", "E" >>
PKG_DIR == << FOO >>

ClassifiedPackage(license, license_file) ==
    Package(PackageId(FOO, << 1, 2, 0 >>, "registry"), PKG_DIR,
            Metadata(license, license_file), {})

LicenseFileOptions == { None, Some(LICENSE_TXT) }

ClassifierIdle == licenses = << >> /\ shown = << >>
LocatorIdle == license_files = None
EnumeratorIdle == dependencies = None
MainIdle ==
    /\ pc = "idle"
    /\ pending = << >>
    /\ block = None
    /\ depencies_list = << >>
    /\ licenses_list = << >>
    /\ out = << >>

\* One package with any raw expression (or none), or two packages whose
\* expressions list the same identifiers.
InitClassifier ==
    /\ \/ \E l \in { None } \cup { Some(e) : e \in RawExpressions },
             f \in LicenseFileOptions :
            package_ids = << ClassifiedPackage(l, f) >>
       \/ \E ids1 \in IdLists, ids2 \in IdLists :
            /\ Range(ids1) = Range(ids2)
            /\ \E e1 \in Listings(ids1), e2 \in Listings(ids2) :
                 package_ids = << ClassifiedPackage(Some(e1), None),
                                  ClassifiedPackage(Some(e2), None) >>
    /\ members = << >>
    /\ resolve = [ids |-> {}, edges |-> {}]
    /\ fs = NoFs
    /\ all = FALSE
    /\ licenses = [i \in DOMAIN package_ids |-> None]
    /\ shown = [i \in DOMAIN package_ids |-> None]
    /\ LocatorIdle /\ EnumeratorIdle /\ MainIdle

\* package_licenses(package), for a package not classified yet
Classify ==
    \E i \in DOMAIN package_ids :
        /\ licenses[i] = None
        /\ licenses' = [licenses EXCEPT ![i] = Some(package_licenses(package_ids[i]))]
        /\ UNCHANGED << worldVars, shown, license_files, dependencies, mainVars >>

\* format!("{}", licenses), for a classified package
Render ==
    \E i \in DOMAIN package_ids :
        /\ licenses[i] # None
        /\ shown[i] = None
        /\ shown' = [shown EXCEPT ![i] = Some(Display(licenses[i][1]))]
        /\ UNCHANGED << worldVars, licenses, license_files, dependencies, mainVars >>

NextClassifier == Classify \/ Render

SpecClassifier == InitClassifier /\ [][NextClassifier]_vars

\* ------------------------------------------------------------ paths and the filesystem
\* A PathBuf is its sequence of components, which is what its Eq and Ord compare:
\* the separators and the "." components between them are normalised away, ".."
\* is kept.  Every path here is absolute; the root is the empty sequence.
PARENT == << ".", "." >>
CURDIR == << "." >>

RECURSIVE DropEmptyAndCurDir(_)
DropEmptyAndCurDir(cs) ==
    IF cs = << >> THEN << >>
    ELSE IF Head(cs) = << >> \/ Head(cs) = CURDIR THEN DropEmptyAndCurDir(Tail(cs))
    ELSE << Head(cs) >> \o DropEmptyAndCurDir(Tail(cs))

\* Path::components of a path string
Components(s) == DropEmptyAndCurDir(Split(s, SLASH))

\* path.join(license_file): an absolute operand replaces the path.
join(path, rel) ==
    IF rel # << >> /\ Head(rel) = "/" THEN Components(rel) ELSE path \o Components(rel)

\* Ord for Component: ParentDir sorts before every Normal component, Normal
\* components compare as bytes.
CompLess(a, b) ==
    IF a = PARENT THEN b # PARENT
    ELSE IF b = PARENT THEN FALSE
    ELSE StrLess(a, b)

RECURSIVE PathLess(_, _)
\* Ord for PathBuf: the components, lexicographically.
PathLess(a, b) ==
    IF b = << >> THEN FALSE
    ELSE IF a = << >> THEN TRUE
    ELSE IF Head(a) = Head(b) THEN PathLess(Tail(a), Tail(b))
    ELSE CompLess(Head(a), Head(b))

RECURSIVE SortPaths(_)
\* The iteration order of a BTreeSet<PathBuf>.
SortPaths(S) ==
    IF S = {} THEN << >>
    ELSE LET m == CHOOSE x \in S : \A y \in S \ {x} : PathLess(x, y)
         IN  << m >> \o SortPaths(S \ {m})

\* The filesystem: nodes [path, kind] (kind "file" or "dir") under the root, and
\* the directories that cannot be listed.
Kind(f, p) ==
    IF p = << >> THEN "dir"
    ELSE IF \E n \in f.nodes : n.path = p
    THEN (CHOOSE n \in f.nodes : n.path = p).kind
    ELSE "none"

RECURSIVE Walk(_, _, _)
\* Path resolution from node cur: the node designated, as a set of at most one.
Walk(f, cur, comps) ==
    IF comps = << >> THEN { cur }
    ELSE IF Kind(f, cur) # "dir" THEN {}
    ELSE LET c == Head(comps)
             next == IF c = PARENT
                     THEN IF cur = << >> THEN << >> ELSE SubSeq(cur, 1, Len(cur) - 1)
                     ELSE cur \o << c >>
         IN  IF Kind(f, next) = "none" THEN {} ELSE Walk(f, next, Tail(comps))

Designates(f, p) == Walk(f, << >>, p)

\* Path::exists
exists(f, p) == Designates(f, p) # {}

\* Path::read_dir: the entries' names, or an error.
read_dir(f, p) ==
    IF Designates(f, p) = {} \/ Kind(f, p) # "dir" \/ p \in f.denied
    THEN [ok |-> FALSE]
    ELSE [ok |-> TRUE,
          names |-> { n.path[Len(n.path)] :
                        n \in { m \in f.nodes : /\ Len(m.path) = Len(p) + 1
                                                /\ SubSeq(m.path, 1, Len(p)) = p } }]

\* fs::read: the bytes of a regular file, named here by the node read.
read(f, p) ==
    LET n == Designates(f, p)
    IN  IF n # {} /\ Kind(f, CHOOSE x \in n : TRUE) = "file"
        THEN [ok |-> TRUE, node |-> CHOOSE x \in n : TRUE]
        ELSE [ok |-> FALSE]

\* ------------------------------------------------------------ locator
UNLICENSE_TXT == << "U", "N" >> \o LICENSE_TXT
COPYRIGHT_TXT == << "C", "O", "P", "Y", "R", "I", "G", "H", "T" >>
LICENCE_FILE_NAMES == << LICENSE_TXT, UNLICENSE_TXT, COPYRIGHT_TXT >>

Matches(name) == \E k \in DOMAIN LICENCE_FILE_NAMES : StartsWith(name, LICENCE_FILE_NAMES[k])

\* BTreeSet::insert on the set's iteration sequence: an element equal to x is
\* kept, otherwise x goes after the elements less than it.
\* n is the number of elements less than x.
BTreeInsert(s, x, n) ==
    IF \E k \in DOMAIN s : s[k] = x THEN s
    ELSE SubSeq(s, 1, n) \o << x >> \o SubSeq(s, n + 1, Len(s))

\* Vec::push in the place of the insert: no order, no deduplication.
push_path(result, file) == Append(result, file)

\* result.insert(file) on a BTreeSet<PathBuf>
insert_path(result, file) ==
    BTreeInsert(result, file, Cardinality({ k \in DOMAIN result : PathLess(result[k], file) }))

RECURSIVE InsertEntries(_, _, _)
\* The loop over read_dir's entries (their order is the directory's): each entry
\* whose name starts with one of LICENCE_FILE_NAMES is inserted.
InsertEntries(result, path, names) ==
    IF names = {} THEN result
    ELSE LET name == CHOOSE n \in names : TRUE
         IN  InsertEntries(IF Matches(name) THEN insert_path(result, path \o << name >>)
                           ELSE result,
                           path, names \ { name })

\* package_license_files with a directory that cannot be listed taken as empty.
package_license_files_unlistable_skipped(package, f) ==
    LET path == package.dir
        metadata == package.metadata
        declared == IF metadata.license_file # None
                       /\ exists(f, join(path, metadata.license_file[1]))
                    THEN insert_path(<< >>, join(path, metadata.license_file[1]))
                    ELSE << >>
        listing == read_dir(f, path)
    IN  IF ~listing.ok THEN [ok |-> TRUE, files |-> declared]
        ELSE [ok |-> TRUE, files |-> InsertEntries(declared, path, listing.names)]

\* package_license_files with the declared file inserted without the exists test.
package_license_files_no_exists(package, f) ==
    LET path == package.dir
        metadata == package.metadata
        declared == IF metadata.license_file # None
                    THEN insert_path(<< >>, join(path, metadata.license_file[1]))
                    ELSE << >>
        listing == read_dir(f, path)
    IN  IF ~listing.ok THEN [ok |-> FALSE]
        ELSE [ok |-> TRUE, files |-> InsertEntries(declared, path, listing.names)]

\* package_license_files: the declared file when it exists, and every entry of
\* the manifest directory whose name starts with one of LICENCE_FILE_NAMES; an
\* error when the directory cannot be listed.  The value is the BTreeSet in its
\* iteration order.
package_license_files(package, f) ==
    LET path == package.dir
        metadata == package.metadata
        declared == IF metadata.license_file # None
                       /\ exists(f, join(path, metadata.license_file[1]))
                    THEN insert_path(<< >>, join(path, metadata.license_file[1]))
                    ELSE << >>
        listing == read_dir(f, path)
    IN  IF ~listing.ok THEN [ok |-> FALSE]
        ELSE [ok |-> TRUE, files |-> InsertEntries(declared, path, listing.names)]

\* ------------------------------------------------------------ locator inputs
\* Most entries the manifest directory holds.
MaxEntries == 3

LICENSE_MIT == LICENSE_TXT \o << "-", "M", "I", "T" >>
LICENSES_DIR == LICENSE_TXT \o << "S" >>
README == << "R", "E", "A", "D", "M", "E" >>
LOWER_LICENSE == << "l", "i", "c", "e", "n", "s", "e" >>
SUB == << "s", "u", "b" >>
COPYING == << "C", "O", "P", "Y", "I", "N", "G" >>

File(dir, name) == [path |-> dir \o << name >>, kind |-> "file"]
Dir(dir, name) == [path |-> dir \o << name >>, kind |-> "dir"]

EntryChoices(dir) ==
    { File(dir, LICENSE_TXT), File(dir, LICENSE_MIT), File(dir, COPYRIGHT_TXT),
      File(dir, UNLICENSE_TXT), File(dir, README), File(dir, LOWER_LICENSE),
      Dir(dir, SUB), Dir(dir, LICENSES_DIR) }

\* The manifest directory with up to MaxEntries entries, listable or not, or no
\* directory at all.
Filesystems(dir) ==
    { [nodes |-> { [path |-> dir, kind |-> "dir"] } \cup es, denied |-> d] :
        es \in { x \in SUBSET EntryChoices(dir) : Cardinality(x) <= MaxEntries },
        d \in { {}, { dir } } }
    \cup { [nodes |-> {}, denied |-> {}] }

DeclaredChoices ==
    { None, Some(LICENSE_TXT), Some(CURDIR \o SLASH \o LICENSE_TXT),
      Some(SUB \o SLASH \o PARENT \o SLASH \o LICENSE_TXT),
      Some(PARENT \o SLASH \o FOO \o SLASH \o LICENSE_TXT),
      Some(SLASH \o FOO \o SLASH \o LICENSE_MIT),
      Some(LICENSE_MIT), Some(README), Some(COPYING) }

InitLocator ==
    /\ \E f \in DeclaredChoices :
         package_ids = << ClassifiedPackage(Some(MIT), f) >>
    /\ members = << >>
    /\ resolve = [ids |-> {}, edges |-> {}]
    /\ fs \in Filesystems(PKG_DIR)
    /\ all = FALSE
    /\ license_files = None
    /\ ClassifierIdle /\ EnumeratorIdle /\ MainIdle

\* let license_files = package_license_files(package)
Locate ==
    /\ license_files = None
    /\ license_files' = Some(package_license_files(package_ids[1], fs))
    /\ UNCHANGED << worldVars, classifierVars, dependencies, mainVars >>

NextLocator == Locate

SpecLocator == InitLocator /\ [][NextLocator]_vars

\* ------------------------------------------------------------ enumerator
\* Dependency::matches_id: the name, the version requirement (the set of
\* versions it admits) and the source.
matches_id(dependency, id) ==
    /\ dependency.name = id.name
    /\ id.version \in dependency.req
    /\ dependency.source = id.source

\* package_ids.package_ids().find(|id| dependency.matches_id(*id)): the first
\* match in the PackageSet's iteration order, as a set of at most one package.
find(ps, dependency) ==
    LET hits == { k \in DOMAIN ps : matches_id(dependency, ps[k].id) }
    IN  IF hits = {} THEN {}
        ELSE { ps[CHOOSE k \in hits : \A l \in hits : k <= l] }

\* top_level_dependencies without the loop that removes the members.
top_level_dependencies_members_kept(ms, ps) ==
    UNION { find(ps, d) :
              d \in { x \in UNION { ms[k].dependencies : k \in DOMAIN ms } :
                        x.kind = "Normal" } }

\* top_level_dependencies: for every Normal dependency of every member the first
\* package of the set it matches, the members removed.
top_level_dependencies(ms, ps) ==
    UNION { find(ps, d) :
              d \in { x \in UNION { ms[k].dependencies : k \in DOMAIN ms } :
                        x.kind = "Normal" } }
    \ Range(ms)

\* all_dependencies: every package of the resolve that is not a member.
all_dependencies(ms, ps, r) ==
    { pkg \in { ps[CHOOSE k \in DOMAIN ps : ps[k].id = id] : id \in r.ids } :
        pkg \notin Range(ms) }

\* ------------------------------------------------------------ enumerator inputs
\* Most dependencies the member app declares (lib: one less).
MaxDeps == 2

V1 == << 1, 0, 0 >>
V2 == << 2, 0, 0 >>

Dependency(name, req, source, kind) ==
    [name |-> name, req |-> req, source |-> source, kind |-> kind]

AppId == PackageId(APP, V1, "path")
LibId == PackageId(LIB, V1, "path")
Foo1Id == PackageId(FOO, V1, "registry")
Foo2Id == PackageId(FOO, V2, "registry")
BarId == PackageId(BAR, V1, "path")

DepLib == Dependency(LIB, { V1 }, "path", "Normal")
DepBar == Dependency(BAR, { V1 }, "path", "Normal")

\* What a member may declare: foo = "*", foo = "1", bar and lib, by kind.
MemberDeps ==
    { Dependency(FOO, { V1, V2 }, "registry", "Normal"),
      Dependency(FOO, { V1 }, "registry", "Build"),
      Dependency(FOO, { V1 }, "registry", "Normal"),
      Dependency(BAR, { V1 }, "path", "Development"),
      DepBar, DepLib }

DepSets(n) == { ds \in SUBSET MemberDeps : Cardinality(ds) <= n }

NoMetadata == Metadata(None, None)

\* The packages there are: the members app and lib with the dependencies drawn,
\* foo 1, foo 2 (which depends on bar) and bar (which depends on lib).
Universe(appDeps, libDeps) ==
    { Package(AppId, << APP >>, NoMetadata, appDeps),
      Package(LibId, << LIB >>, NoMetadata, libDeps),
      Package(Foo1Id, << FOO >>, NoMetadata, {}),
      Package(Foo2Id, << FOO >>, NoMetadata, { DepBar }),
      Package(BarId, << BAR >>, NoMetadata, { DepLib }) }

\* The resolver's edges: each dependency goes to a package it matches, the one
\* the lock file names (pick) when several do.
Edges(universe, pick) ==
    UNION { { [from |-> pd[1].id, dep |-> pd[2], to |-> t.id] :
                t \in { u \in universe :
                          /\ matches_id(pd[2], u.id)
                          /\ (Cardinality(pd[2].req) > 1 => u.id = pick) } } :
            pd \in UNION { { << pkg, d >> : d \in pkg.dependencies } : pkg \in universe } }

RECURSIVE Reach(_, _, _)
Reach(ids, edges, n) ==
    IF n = 0 THEN ids
    ELSE Reach(ids \cup { e.to : e \in { x \in edges : x.from \in ids } }, edges, n - 1)

\* Ord for PackageId: the name, the version, the source.
VersionLess(a, b) ==
    \E k \in 1..3 : a[k] < b[k] /\ \A l \in 1..(k - 1) : a[l] = b[l]

SourceRank(src) == CASE src = "git" -> 1 [] src = "path" -> 2 [] src = "registry" -> 3

PackageIdLess(a, b) ==
    \/ StrLess(a.name, b.name)
    \/ a.name = b.name /\ VersionLess(a.version, b.version)
    \/ a.name = b.name /\ a.version = b.version /\ SourceRank(a.source) < SourceRank(b.source)

PackageLess(a, b) == PackageIdLess(a.id, b.id)

RECURSIVE SortPackages(_)
\* The iteration order of a BTreeSet<Package>.
SortPackages(S) ==
    IF S = {} THEN << >>
    ELSE LET m == CHOOSE x \in S : \A y \in S \ {x} : PackageLess(x, y)
         IN  << m >> \o SortPackages(S \ {m})

Reverse(s) == [k \in DOMAIN s |-> s[Len(s) + 1 - k]]

\* What ops::resolve_ws gives for the members ms: the resolve (the packages
\* reachable from the members, and the edges between them) and the PackageSet of
\* those packages, whose iteration order is a hash map's: ascending or descending
\* here.
ResolveWs(universe, ms, pick, descending) ==
    LET edges == Edges(universe, pick)
        ids == Reach({ ms[k].id : k \in DOMAIN ms }, edges, Cardinality(universe))
        sorted == SortPackages({ u \in universe : u.id \in ids })
    IN  [package_ids |-> IF descending THEN Reverse(sorted) ELSE sorted,
         resolve |-> [ids |-> ids, edges |-> { e \in edges : e.from \in ids }]]

InitEnumerator ==
    /\ \E appDeps \in DepSets(MaxDeps), libDeps \in DepSets(MaxDeps - 1), order \in 1..3,
          pick \in { Foo1Id, Foo2Id }, descending \in BOOLEAN :
         LET universe == Universe(appDeps, IF order = 1 THEN {} ELSE libDeps)
             app == CHOOSE u \in universe : u.id = AppId
             lib == CHOOSE u \in universe : u.id = LibId
             ms == CASE order = 1 -> << app >>
                     [] order = 2 -> << app, lib >>
                     [] order = 3 -> << lib, app >>
             ws == ResolveWs(universe, ms, pick, descending)
         IN  /\ members = ms
             /\ package_ids = ws.package_ids
             /\ resolve = ws.resolve
    /\ fs = NoFs
    /\ all \in BOOLEAN
    /\ dependencies = None
    /\ ClassifierIdle /\ LocatorIdle /\ MainIdle

\* top_level_dependencies(&members, package_ids)?
TopLevel ==
    /\ dependencies = None
    /\ ~all
    /\ dependencies' = Some(top_level_dependencies(members, package_ids))
    /\ UNCHANGED << worldVars, classifierVars, license_files, mainVars >>

\* all_dependencies(&members, package_ids, resolve)?
AllDeps ==
    /\ dependencies = None
    /\ all
    /\ dependencies' = Some(all_dependencies(members, package_ids, resolve))
    /\ UNCHANGED << worldVars, classifierVars, license_files, mainVars >>

NextEnumerator == TopLevel \/ AllDeps

SpecEnumerator == InitEnumerator /\ [][NextEnumerator]_vars

\* ------------------------------------------------------------ real_main
Digit(n) == Alphabet[5 + 1 + n]

\* format!("{}", package.version())
VersionString(v) == << Digit(v[1]), ".", Digit(v[2]), ".", Digit(v[3]) >>

RECURSIVE PathSetLess(_, _)
\* Ord for BTreeSet<PathBuf>: the iteration sequences, lexicographically.
PathSetLess(a, b) ==
    IF b = << >> THEN FALSE
    ELSE IF a = << >> THEN TRUE
    ELSE IF Head(a) = Head(b) THEN PathSetLess(Tail(a), Tail(b))
    ELSE PathLess(Head(a), Head(b))

\* #[derive(Ord)] for DepTable: name, version, licenses.
DepTableLess(a, b) ==
    \/ StrLess(a.name, b.name)
    \/ a.name = b.name /\ StrLess(a.version, b.version)
    \/ a.name = b.name /\ a.version = b.version /\ StrLess(a.licenses, b.licenses)

\* #[derive(Ord)] for LicenseTable: name, version, license_files.
LicenseTableLess(a, b) ==
    \/ StrLess(a.name, b.name)
    \/ a.name = b.name /\ StrLess(a.version, b.version)
    \/ /\ a.name = b.name
       /\ a.version = b.version
       /\ PathSetLess(a.license_files, b.license_files)

\* Vec::push in the place of the insert into depencies_list.
push_row(list, row) == Append(list, row)

\* depencies_list.insert(DepTable { .. })
insert_row(list, row) ==
    BTreeInsert(list, row, Cardinality({ k \in DOMAIN list : DepTableLess(list[k], row) }))

\* licenses_list.insert(LicenseTable { .. })
insert_bundle(list, bundle) ==
    BTreeInsert(list, bundle,
                Cardinality({ k \in DOMAIN list : LicenseTableLess(list[k], bundle) }))

\* The test at line 158 with >= for >: a separator after every file.
separator_after_every_file(licenses_to_print) == licenses_to_print >= 1

\* if licenses_to_print > 1
separator_due(licenses_to_print) == licenses_to_print > 1

Table(rows) == [kind |-> "table", rows |-> rows]
Begin(name, version) == [kind |-> "BEGIN", name |-> name, version |-> version]
Body(node) == [kind |-> "body", node |-> node]
NextLicense == [kind |-> "NEXT"]
End(name, version) == [kind |-> "END", name |-> name, version |-> version]

\* let dependencies = if args.all { all_dependencies(..)? } else { top_level_dependencies(..)? }
Enumerate ==
    /\ pc = "start"
    /\ dependencies' = Some(IF all THEN all_dependencies(members, package_ids, resolve)
                            ELSE top_level_dependencies(members, package_ids))
    /\ pending' = SortPackages(dependencies'[1])
    /\ pc' = "collect"
    /\ UNCHANGED << worldVars, classifierVars, license_files, block,
                    depencies_list, licenses_list, out >>

\* One turn of the loop over the dependencies: the row and the bundle of the
\* package are inserted, unless package_license_files fails, which ends real_main.
Collect ==
    /\ pc = "collect"
    /\ pending # << >>
    /\ LET package == Head(pending)
           name == package.id.name
           version == VersionString(package.id.version)
           lics == Display(package_licenses(package))
           files == package_license_files(package, fs)
       IN  IF ~files.ok
           THEN /\ pc' = "failed"
                /\ UNCHANGED << pending, depencies_list, licenses_list >>
           ELSE /\ depencies_list' =
                      insert_row(depencies_list,
                                 [name |-> name, version |-> version, licenses |-> lics])
                /\ licenses_list' =
                      insert_bundle(licenses_list,
                                    [name |-> name, version |-> version,
                                     license_files |-> files.files])
                /\ pending' = Tail(pending)
                /\ pc' = "collect"
    /\ UNCHANGED << worldVars, classifierVars, license_files, dependencies, block, out >>

\* out.write_all(table.as_bytes())
WriteTable ==
    /\ pc = "collect"
    /\ pending = << >>
    /\ out' = Append(out, Table(depencies_list))
    /\ pending' = licenses_list
    /\ pc' = "dump"
    /\ UNCHANGED << worldVars, classifierVars, license_files, dependencies, block,
                    depencies_list, licenses_list >>

\* The next LicenseTable: skipped when it has no files, else its BEGIN line.
DumpNext ==
    /\ pc = "dump"
    /\ block = None
    /\ pending # << >>
    /\ LET bundle == Head(pending)
       IN  IF bundle.license_files = << >>
           THEN UNCHANGED << block, out >>
           ELSE /\ out' = Append(out, Begin(bundle.name, bundle.version))
                /\ block' = Some([name |-> bundle.name, version |-> bundle.version,
                                  files |-> bundle.license_files,
                                  licenses_to_print |-> Len(bundle.license_files)])
    /\ pending' = Tail(pending)
    /\ UNCHANGED << worldVars, classifierVars, license_files, dependencies, pc,
                    depencies_list, licenses_list >>

\* One file of the block: read, written, and followed by the separator while
\* more than one license is left to print.  A failed read ends real_main.
DumpFile ==
    /\ pc = "dump"
    /\ block # None
    /\ block[1].files # << >>
    /\ LET b == block[1]
           buf == read(fs, Head(b.files))
       IN  IF ~buf.ok
           THEN pc' = "failed" /\ UNCHANGED << block, out >>
           ELSE /\ pc' = pc
                /\ IF separator_due(b.licenses_to_print)
                   THEN /\ out' = out \o << Body(buf.node), NextLicense >>
                        /\ block' = Some([b EXCEPT !.files = Tail(b.files),
                                                   !.licenses_to_print = @ - 1])
                   ELSE /\ out' = Append(out, Body(buf.node))
                        /\ block' = Some([b EXCEPT !.files = Tail(b.files)])
    /\ UNCHANGED << worldVars, classifierVars, license_files, dependencies, pending,
                    depencies_list, licenses_list >>

\* The END line of the block.
DumpEnd ==
    /\ pc = "dump"
    /\ block # None
    /\ block[1].files = << >>
    /\ out' = Append(out, End(block[1].name, block[1].version))
    /\ block' = None
    /\ UNCHANGED << worldVars, classifierVars, license_files, dependencies, pc, pending,
                    depencies_list, licenses_list >>

\* Ok(())
Finish ==
    /\ pc = "dump"
    /\ block = None
    /\ pending = << >>
    /\ pc' = "done"
    /\ UNCHANGED << worldVars, classifierVars, license_files, dependencies, pending,
                    block, depencies_list, licenses_list, out >>

NextMain ==
    \/ Enumerate
    \/ Collect
    \/ WriteTable
    \/ DumpNext
    \/ DumpFile
    \/ DumpEnd
    \/ Finish

\* ------------------------------------------------------------ real_main inputs
\* Most license files a package directory holds.
MaxFiles == 3

V120 == << 1, 2, 0 >>
V010 == << 0, 1, 0 >>
GIT == << "G", "I", "T" >>
LICENSE_APACHE == LICENSE_TXT \o << "-", "A", "P", "A", "C", "H", "E" >>
MIT_OR_APACHE == MIT \o << " " >> \o OR \o << " " >> \o APACHE

FooRegId == PackageId(FOO, V120, "registry")
FooGitId == PackageId(FOO, V120, "git")
BarRegId == PackageId(BAR, V010, "registry")
FooRegDir == << FOO >>
FooGitDir == << GIT, FOO >>
BarDir == << BAR >>

\* What app may declare: foo from the registry, foo from git, bar as a normal or
\* as a build dependency.
AppDepSets ==
    { a \cup b \cup c :
        a \in { {}, { Dependency(FOO, { V120 }, "registry", "Normal") } },
        b \in { {}, { Dependency(FOO, { V120 }, "git", "Normal") } },
        c \in { {}, { Dependency(BAR, { V010 }, "registry", "Normal") },
                { Dependency(BAR, { V010 }, "registry", "Build") } } }

MainUniverse(appDeps, gitLicense) ==
    { Package(AppId, << APP >>, NoMetadata, appDeps),
      Package(FooRegId, FooRegDir, Metadata(Some(MIT_OR_APACHE), None), {}),
      Package(FooGitId, FooGitDir, Metadata(Some(gitLicense), None), {}),
      Package(BarRegId, BarDir, Metadata(None, Some(LICENSE_MIT)), {}) }

LicenseFileNames == << LICENSE_APACHE, LICENSE_MIT, COPYRIGHT_TXT, UNLICENSE_TXT, LICENSE_TXT >>

\* A package directory: not listable, or holding the first k license files, or
\* LICENSE-MIT beside a directory LICENSES (which the scan takes and fs::read
\* cannot read).
DirStates(dir) ==
    { [nodes |-> { [path |-> dir, kind |-> "dir"] }, denied |-> { dir }] }
    \cup { [nodes |-> { [path |-> dir, kind |-> "dir"] }
                      \cup { File(dir, LicenseFileNames[k]) : k \in 1..n },
            denied |-> {}] : n \in 0..MaxFiles }
    \cup { [nodes |-> { [path |-> dir, kind |-> "dir"], File(dir, LICENSE_MIT),
                        Dir(dir, LICENSES_DIR) },
            denied |-> {}] }

InitMain ==
    /\ \E appDeps \in AppDepSets, gitLicense \in { MIT, MIT_OR_APACHE } :
         LET universe == MainUniverse(appDeps, gitLicense)
             app == CHOOSE u \in universe : u.id = AppId
             ws == ResolveWs(universe, << app >>, AppId, FALSE)
         IN  /\ members = << app >>
             /\ package_ids = ws.package_ids
             /\ resolve = ws.resolve
    /\ \E foo \in DirStates(FooRegDir), git \in DirStates(FooGitDir),
          bar \in DirStates(BarDir) :
         LET used(st, id) == IF id \in resolve.ids THEN st ELSE NoFs
             sts == { used(foo, FooRegId), used(git, FooGitId), used(bar, BarRegId) }
         IN  fs = [nodes |-> UNION { st.nodes : st \in sts }
                             \cup { [path |-> << GIT >>, kind |-> "dir"] },
                   denied |-> UNION { st.denied : st \in sts }]
    /\ all \in BOOLEAN
    /\ dependencies = None
    /\ pc = "start"
    /\ pending = << >>
    /\ block = None
    /\ depencies_list = << >>
    /\ licenses_list = << >>
    /\ out = << >>
    /\ ClassifierIdle /\ LocatorIdle

SpecMain == InitMain /\ [][NextMain]_vars

\* ------------------------------------------------------------ enumerator claims
Enumerated == dependencies # None
MemberIds == { members[k].id : k \in DOMAIN members }

\* C1: in both modes the enumerated set holds no workspace member, also when a
\* member is a dependency, direct or transitive, of another member.
C1_NoWorkspaceMember ==
    Enumerated => \A pkg \in dependencies[1] : pkg.id \notin MemberIds

\* lib is a member that app depends on, normally and directly (top-level mode)
\* or through bar (all mode), and the enumeration has run.
C1_Witness ==
    /\ Enumerated
    /\ LibId \in MemberIds
    /\ \/ ~all /\ \E e \in resolve.edges :
                    e.from = AppId /\ e.to = LibId /\ e.dep.kind = "Normal"
       \/ all /\ (\E e \in resolve.edges : e.from = AppId /\ e.to = BarId)
              /\ (\E e \in resolve.edges : e.from = BarId /\ e.to = LibId)
              /\ ~ \E e \in resolve.edges : e.from = AppId /\ e.to = LibId
    /\ dependencies[1] # {}

\* C2: in top-level mode every package returned is the target of a Normal edge
\* of some member in the resolved graph.
C2_OnlyDirectNormalDependencies ==
    (Enumerated /\ ~all)
    => \A pkg \in dependencies[1] :
         \E e \in resolve.edges :
            e.from \in MemberIds /\ e.dep.kind = "Normal" /\ e.to = pkg.id

\* ------------------------------------------------------------ classifier claims
Classified(i) == licenses[i] # None
LicenseOf(i) == package_ids[i].metadata.license
LicenseFileOf(i) == package_ids[i].metadata.license_file

\* C3: the identifier set of a present license expression never holds an empty
\* token (empty tokens are discarded after the split and the trim).
C3_NoEmptyIdentifier ==
    \A i \in DOMAIN licenses :
        (Classified(i) /\ licenses[i][1].tag = "List") => << >> \notin licenses[i][1].names

\* The identifier sets an expression lists: e is the identifiers of some list, in
\* its order, joined by separators.
ListedBy(e) == { Range(ids) : ids \in { l \in IdLists : e \in Listings(l) } }

StrictlyAscending(ss) == \A k \in 1..(Len(ss) - 1) : StrLess(ss[k], ss[k + 1])

\* C4: two expressions that list the same identifiers, in any order and with any
\* of the separators OR, AND and '/', classify to the same identifier set (the
\* identifiers listed), and the set is displayed as its identifiers in ascending
\* order joined by ", ".
C4_OrderAndSeparatorIndependent ==
    \A i, j \in DOMAIN licenses :
        (/\ Classified(i) /\ Classified(j)
         /\ LicenseOf(i) # None /\ LicenseOf(j) # None
         /\ ListedBy(LicenseOf(i)[1]) \cap ListedBy(LicenseOf(j)[1]) # {})
        => /\ licenses[i][1] = licenses[j][1]
           /\ licenses[i][1].tag = "List"
           /\ licenses[i][1].names \in ListedBy(LicenseOf(i)[1])
           /\ shown[i] # None =>
                LET parts == Split(shown[i][1], COMMA_SPACE)
                IN  /\ Range(parts) = licenses[i][1].names
                    /\ StrictlyAscending(parts)
                    /\ shown[j] # None => shown[j] = shown[i]

MIT_SLASH_APACHE == MIT \o SLASH \o APACHE
APACHE_OR_MIT == APACHE \o << " " >> \o OR \o << " " >> \o MIT
APACHE_COMMA_MIT == APACHE \o COMMA_SPACE \o MIT

\* "MIT/Apache-2.0" and "Apache-2.0 OR MIT", both classified and displayed.
C4_Witness ==
    /\ Len(package_ids) = 2
    /\ LicenseOf(1) = Some(MIT_SLASH_APACHE)
    /\ LicenseOf(2) = Some(APACHE_OR_MIT)
    /\ licenses[1] = Some([tag |-> "List", names |-> { APACHE, MIT }])
    /\ licenses[2] = licenses[1]
    /\ shown[1] = Some(APACHE_COMMA_MIT)
    /\ shown[2] = Some(APACHE_COMMA_MIT)

\* C5: exactly one variant, the expression first: List whenever an expression is
\* present, File (the declared path) only without an expression and with a
\* declared file, Missing only without both.
C5_ExpressionTakesPrecedence ==
    \A i \in DOMAIN licenses :
        Classified(i) =>
            LET l == licenses[i][1]
            IN  /\ l.tag \in { "List", "File", "Missing" }
                /\ (l.tag = "List") <=> (LicenseOf(i) # None)
                /\ (l.tag = "File") <=> (LicenseOf(i) = None /\ LicenseFileOf(i) # None)
                /\ (l.tag = "Missing") <=> (LicenseOf(i) = None /\ LicenseFileOf(i) = None)
                /\ (l.tag = "File") => (l.file = LicenseFileOf(i)[1])

\* An expression and a declared file, classified as List.
C5_Witness ==
    \E i \in DOMAIN licenses :
        /\ Classified(i)
        /\ LicenseOf(i) # None
        /\ LicenseFileOf(i) # None
        /\ licenses[i][1].tag = "List"

\* ------------------------------------------------------------ locator claims
Located == license_files # None
LocatedPackage == package_ids[1]
Declared == LocatedPackage.metadata.license_file
DeclaredPath == join(LocatedPackage.dir, Declared[1])

\* The paths of the manifest directory's entries with a recognised prefix.
Scanned ==
    LET listing == read_dir(fs, LocatedPackage.dir)
    IN  IF listing.ok
        THEN { LocatedPackage.dir \o << n >> : n \in { m \in listing.names : Matches(m) } }
        ELSE {}

\* C6: a declared license file that does not exist, in a directory that can be
\* listed: no error, the declared path is not in the result, and the result is
\* exactly the entries whose name starts with LICENSE, UNLICENSE or COPYRIGHT.
C6_MissingDeclaredFileDropped ==
    (/\ Located
     /\ Declared # None
     /\ ~exists(fs, DeclaredPath)
     /\ read_dir(fs, LocatedPackage.dir).ok)
    => /\ license_files[1].ok
       /\ \A k \in DOMAIN license_files[1].files : license_files[1].files[k] # DeclaredPath
       /\ Range(license_files[1].files) = Scanned

\* A declared file that is missing beside two license files that are found.
C6_Witness ==
    /\ Located
    /\ Declared = Some(COPYING)
    /\ ~exists(fs, DeclaredPath)
    /\ license_files[1].ok
    /\ Len(license_files[1].files) = 2

\* How often the result holds a path designating node n.
Occurrences(n) ==
    Cardinality({ k \in DOMAIN license_files[1].files :
                    Designates(fs, license_files[1].files[k]) = { n } })

\* C7 as stated: when the declared path designates a file the scan also finds,
\* that file is in the result once.
C7_DeclaredFileOnce ==
    (Located /\ license_files[1].ok /\ Declared # None)
    => \A n \in Designates(fs, DeclaredPath) : n \in Scanned => Occurrences(n) = 1

\* C7, amended: when the declared path, joined to the manifest directory, is the
\* path of a scanned entry (the same components, "." and repeated separators
\* aside), the result holds that path once, holds no file twice, and iterates in
\* ascending path order.
C7_DeclaredPathOnce ==
    (Located /\ license_files[1].ok /\ Declared # None /\ DeclaredPath \in Scanned)
    => LET files == license_files[1].files
       IN  /\ Cardinality({ k \in DOMAIN files : files[k] = DeclaredPath }) = 1
           /\ Occurrences(DeclaredPath) = 1
           /\ \A k, l \in DOMAIN files :
                k # l => Designates(fs, files[k]) # Designates(fs, files[l])
           /\ \A k \in 1..(Len(files) - 1) :
                /\ PathLess(files[k], files[k + 1])
                /\ StrLess(files[k][Len(files[k])], files[k + 1][Len(files[k + 1])])

\* "./LICENSE" declared, LICENSE and LICENSE-MIT found by the scan.
C7_Witness ==
    /\ Located
    /\ Declared = Some(CURDIR \o SLASH \o LICENSE_TXT)
    /\ license_files[1].ok
    /\ license_files[1].files = << PKG_DIR \o << LICENSE_TXT >>, PKG_DIR \o << LICENSE_MIT >> >>

\* ------------------------------------------------------------ real_main claims
IsPrefix(a, b) == Len(a) <= Len(b) /\ SubSeq(b, 1, Len(a)) = a

\* The chunk a file's bytes make (a file that cannot be read is never written).
BodyOf(file) ==
    LET buf == read(fs, file) IN IF buf.ok THEN Body(buf.node) ELSE Body(file)

\* What the claim has a bundle of n files write: nothing for n = 0, else BEGIN,
\* the n bodies with NEXT LICENSE between consecutive ones, END.
ExpectedBlock(bundle) ==
    LET files == bundle.license_files
        n == Len(files)
    IN  IF n = 0 THEN << >>
        ELSE << Begin(bundle.name, bundle.version) >>
             \o Concat([k \in 1..n |-> IF k < n THEN << BodyOf(files[k]), NextLicense >>
                                       ELSE << BodyOf(files[k]) >>])
             \o << End(bundle.name, bundle.version) >>

ExpectedDump(bundles) == Concat([k \in DOMAIN bundles |-> ExpectedBlock(bundles[k])])

Dumped == SubSeq(licenses_list, 1, Len(licenses_list) - Len(pending))

\* C8: after the table, every bundle of n files is written as nothing (n = 0) or
\* as BEGIN, its n bodies in set order with n - 1 NEXT LICENSE lines, each
\* between two consecutive bodies and none after the last, and END: the output
\* is always a prefix of that, is exactly that for the bundles done, and is all
\* of it when real_main returns Ok.
C8_BlockSeparators ==
    (pc \in { "dump", "done", "failed" } /\ out # << >>)
    => /\ IsPrefix(out, << Table(depencies_list) >> \o ExpectedDump(licenses_list))
       /\ (pc = "dump" /\ block = None)
            => out = << Table(depencies_list) >> \o ExpectedDump(Dumped)
       /\ pc = "done" => out = << Table(depencies_list) >> \o ExpectedDump(licenses_list)

\* A finished run with a bundle of no file, one of one file and one of three.
C8_Witness ==
    /\ pc = "done"
    /\ \A n \in { 0, 1, 3 } :
         \E k \in DOMAIN licenses_list : Len(licenses_list[k].license_files) = n
    /\ Cardinality({ k \in DOMAIN out : out[k] = NextLicense }) = 2

Unlistable(pkg) == ~read_dir(fs, pkg.dir).ok

\* C10: when the manifest directory of any enumerated dependency cannot be
\* listed, real_main writes nothing and does not get past the loop: it is in the
\* loop with that dependency still to come, or has returned the error.
C10_ListingFailureIsFatal ==
    (Enumerated /\ \E pkg \in dependencies[1] : Unlistable(pkg))
    => /\ out = << >>
       /\ pc \in { "collect", "failed" }
       /\ pc = "collect" => \E k \in DOMAIN pending : Unlistable(pending[k])

\* The error returned for a dependency that is not the first of the enumeration.
C10_Witness ==
    /\ pc = "failed"
    /\ out = << >>
    /\ Len(depencies_list) = 2
    /\ Unlistable(Head(pending))

====
